---- MODULE Spec2Model ----
(***************************************************************************)
(* Match-suggestion engine of the Valentines backend:                      *)
(*   src/src/services/matching-service.ts  (scorer, ranker, dismissal)     *)
(*   src/src/routes/connections.ts         (GET /suggestions, /dismiss)    *)
(* The store (users, couples, matches_suggestions) is the state; every     *)
(* handler is an action.  Spec runs the handlers one after the other,      *)
(* SpecQueue does the same over a user table large enough to fill a queue  *)
(* past the fetch ceiling, SpecConc runs GET /suggestions one store round  *)
(* trip at a time so that two requests interleave.                         *)
(***************************************************************************)
EXTENDS Integers, Sequences, FiniteSets, TLC

VARIABLES
    users,                \* table users: id -> profile
    sessions,             \* ids carried by authenticated requests (req.userId)
    couples,              \* table couples, in insertion order
    matches_suggestions,  \* table matches_suggestions; a row's id is its index
    storeEnforcesUnique,  \* does the store reject a second live (user_id, suggested_match_id)?
    now,                  \* the clock read by new Date()
    budget,               \* dismiss calls still allowed in this run
    response,             \* last answer of a handler run in one piece
    inflight,             \* GET /suggestions requests run step by step
    fault,                \* the store call that answers with an error, or "none"
    probe,                \* last direct call of the scorer or of the reason builder
    connection_requests   \* table connection_requests; a row's id is its index

vars == <<users, sessions, couples, matches_suggestions, storeEnforcesUnique,
          now, budget, response, inflight, fault, probe, connection_requests>>

----------------------------------------------------------------------------
(* Bounds *)

MaxClock == 2
MaxDismissals == 2
MaxQueueDismissals == 6
MaxSuggestionId == 6
MaxConcDismissals == 1
MaxRequests == 3
MaxCouples == 2
NumRequests == 2

(* Program constants *)

NULL == 0
\* the replenishment test set two rows too high
TargetDepth_Seven == 5 + 2

TargetDepth_Six == 5 + 1

TargetDepth == 5
FetchCeiling == 10

Min(a, b) == IF a < b THEN a ELSE b
Max(a, b) == IF a > b THEN a ELSE b
Range(s) == {s[i] : i \in DOMAIN s}

----------------------------------------------------------------------------
(* Profiles and the scorer *)

Profile(status, interests) ==
    [relationship_status |-> status, interests |-> interests]

\* user1.interests.filter((interest) => user2.interests.includes(interest))
sharedInterests(user1, user2) ==
    SelectSeq(user1.interests, LAMBDA interest : interest \in Range(user2.interests))

\* the interest bonus without its cap and the result without its clamp
calculateCompatibility_Unclamped(user1, user2) ==
    LET statusBonus ==
            IF user1.relationship_status = "single" /\ user2.relationship_status = "single"
            THEN 20
            ELSE IF user1.relationship_status = "looking" /\ user2.relationship_status = "looking"
                 THEN 15
                 ELSE 0
        shared == Len(sharedInterests(user1, user2))
    IN  50 + statusBonus + shared * 5

\* the interest bonus without its cap of 25
calculateCompatibility_NoCap(user1, user2) ==
    LET statusBonus ==
            IF user1.relationship_status = "single" /\ user2.relationship_status = "single"
            THEN 20
            ELSE IF user1.relationship_status = "looking" /\ user2.relationship_status = "looking"
                 THEN 15
                 ELSE 0
        shared == Len(sharedInterests(user1, user2))
    IN  Min(Max(50 + statusBonus + shared * 5, 0), 100)

calculateCompatibility(user1, user2) ==
    LET base == 50
        statusBonus ==
            IF user1.relationship_status = "single" /\ user2.relationship_status = "single"
            THEN 20
            ELSE IF user1.relationship_status = "looking" /\ user2.relationship_status = "looking"
                 THEN 15
                 ELSE 0
        shared == Len(sharedInterests(user1, user2))
        interestBonus == IF shared > 0 THEN Min(shared * 5, 25) ELSE 0
        score == base + statusBonus + interestBonus
    IN  Min(Max(score, 0), 100)

Clause(text, n) == [clause |-> text, n |-> n]

\* reasons.join(' . ') || 'Potential connection', kept as the list of clauses
getMatchReason(user1, user2, score) ==
    LET shared == Len(sharedInterests(user1, user2))
        r1 == IF shared > 0 THEN <<Clause("Share interests", shared)>> ELSE <<>>
        r2 == IF user1.relationship_status = "single" /\ user2.relationship_status = "single"
              THEN <<Clause("Both looking for connection", 0)>> ELSE <<>>
        r3 == IF score > 70 THEN <<Clause("Great compatibility", 0)>> ELSE <<>>
        reasons == r1 \o r2 \o r3
    IN  IF reasons = <<>> THEN <<Clause("Potential connection", 0)>> ELSE reasons

----------------------------------------------------------------------------
(* Store queries used by the handlers *)

Live(row) == row.dismissed_at = NULL

\* .eq('user_id', userId).is('dismissed_at', null)
LiveIds(ms, userId) ==
    {i \in DOMAIN ms : ms[i].user_id = userId /\ Live(ms[i])}

MaxScore(ms, S) ==
    CHOOSE m \in {ms[i].compatibility_score : i \in S} :
        \A i \in S : ms[i].compatibility_score <= m

\* .order('compatibility_score', { ascending: false }).limit(n): the store
\* returns rows of equal score in an order of its own choosing, so the result
\* is any of the score-descending arrangements, cut after n rows.
RECURSIVE OrderedLimit(_, _, _)
OrderedLimit(ms, S, n) ==
    IF S = {} \/ n = 0
    THEN {<<>>}
    ELSE LET top == {i \in S : ms[i].compatibility_score = MaxScore(ms, S)}
         IN  UNION {{<<i>> \o t : t \in OrderedLimit(ms, S \ {i}, n - 1)} : i \in top}

\* the select of GET /suggestions (both the first read and the re-read)
SelectLiveQueue(ms, userId) ==
    OrderedLimit(ms, LiveIds(ms, userId), FetchCeiling)

\* suggestions.length of the first read: every arrangement has this length
FirstReadLength(ms, userId) ==
    Min(Cardinality(LiveIds(ms, userId)), FetchCeiling)

\* the pool query without .neq('id', userId)
PotentialMatches_NoNeq(us, userId) ==
    {m \in DOMAIN us : us[m].relationship_status = "single"}

\* .from('users').select('*').neq('id', userId).eq('relationship_status', 'single')
PotentialMatches(us, userId) ==
    {m \in DOMAIN us : m # userId /\ us[m].relationship_status = "single"}

\* the exclusion query with the null test inverted
ExistingSuggestions_Inverted(ms, userId) ==
    {ms[i].suggested_match_id :
        i \in {j \in DOMAIN ms : ms[j].user_id = userId /\ ms[j].dismissed_at # 0}}

\* .from('matches_suggestions').select('suggested_match_id').eq('user_id', userId).is('dismissed_at', null)
ExistingSuggestions(ms, userId) ==
    {ms[i].suggested_match_id : i \in LiveIds(ms, userId)}

\* .from('couples').select('user1_id, user2_id').or(`user1_id.eq.U,user2_id.eq.U`)
Connections(cs, userId) ==
    {c \in Range(cs) : c.user1_id = userId \/ c.user2_id = userId}

\* only the couples that hold the owner in user1_id are taken into account
existingIds_OneColumn(existingSuggestions, connections, userId) ==
    existingSuggestions
      \cup {c.user2_id : c \in {d \in connections : d.user1_id = userId}}

existingIds(existingSuggestions, connections, userId) ==
    existingSuggestions
      \cup {c.user2_id : c \in {d \in connections : d.user1_id = userId}}
      \cup {c.user1_id : c \in {d \in connections : d.user2_id = userId}}

\* potentialMatches.filter((match) => !existingIds.has(match.id))
Eligible(potentialMatches, excluded) ==
    {m \in potentialMatches : m \notin excluded}

\* .map(score).sort((a, b) => b.score - a.score).slice(0, limit): the sort is
\* stable over the order the store returned the pool in, which the query
\* leaves open, so among candidates of equal score any may make the cut.
\* the comparator reversed: sort((a, b) => a.score - b.score)
scoredMatches_Ascending(us, currentUser, pool, limit) ==
    LET score(m) == calculateCompatibility(currentUser, us[m])
    IN  {T \in SUBSET pool :
            /\ Cardinality(T) = Min(limit, Cardinality(pool))
            /\ \A x \in T : \A y \in pool \ T : score(x) <= score(y)}

scoredMatches(us, currentUser, pool, limit) ==
    LET score(m) == calculateCompatibility(currentUser, us[m])
    IN  {T \in SUBSET pool :
            /\ Cardinality(T) = Min(limit, Cardinality(pool))
            /\ \A x \in T : \A y \in pool \ T : score(x) >= score(y)}

SuggestionRow(us, userId, currentUser, m) ==
    LET score == calculateCompatibility(currentUser, us[m])
    IN  [user_id |-> userId,
         suggested_match_id |-> m,
         compatibility_score |-> score,
         reason |-> getMatchReason(currentUser, us[m], score),
         dismissed_at |-> NULL]

\* The rows of one batch; ids are opaque and generated by the store, so the
\* batch is laid out in one fixed order (score descending, then candidate).
RECURSIVE suggestions(_, _, _, _)
suggestions(us, userId, currentUser, T) ==
    IF T = {}
    THEN <<>>
    ELSE LET score(m) == calculateCompatibility(currentUser, us[m])
             best == CHOOSE x \in T :
                        \A y \in T : \/ score(x) > score(y)
                                     \/ (score(x) = score(y) /\ x <= y)
         IN  <<SuggestionRow(us, userId, currentUser, best)>>
               \o suggestions(us, userId, currentUser, T \ {best})

\* a row of the batch repeats a live (user_id, suggested_match_id) of the table
Conflicts(ms, rows) ==
    \E k \in DOMAIN rows : \E i \in DOMAIN ms :
        /\ Live(ms[i])
        /\ ms[i].user_id = rows[k].user_id
        /\ ms[i].suggested_match_id = rows[k].suggested_match_id

\* an upsert on (user_id, suggested_match_id): a stored row of the pair is
\* reset to live instead of a new row being added
InsertSuggestions_Upsert(ms, rows, unique) ==
    LET hit(row) == \E k \in DOMAIN rows :
                        /\ rows[k].user_id = row.user_id
                        /\ rows[k].suggested_match_id = row.suggested_match_id
        stored(row) == \E i \in DOMAIN ms :
                        /\ ms[i].user_id = row.user_id
                        /\ ms[i].suggested_match_id = row.suggested_match_id
    IN  [i \in DOMAIN ms |-> IF hit(ms[i]) THEN [ms[i] EXCEPT !.dismissed_at = 0] ELSE ms[i]]
          \o SelectSeq(rows, LAMBDA row : ~stored(row))

\* .from('matches_suggestions').insert(suggestions): one statement; when the
\* store rejects it the error is logged and nothing is stored.
InsertSuggestions(ms, rows, unique) ==
    IF rows = <<>> THEN ms
    ELSE IF fault = "insert" THEN ms
    ELSE IF unique /\ Conflicts(ms, rows) THEN ms
    ELSE ms \o rows

\* the update without .eq('user_id', userId)
DismissUpdate_NoOwner(ms, userId, suggestionId, t) ==
    [i \in DOMAIN ms |->
        IF i = suggestionId
        THEN [ms[i] EXCEPT !.dismissed_at = t]
        ELSE ms[i]]

\* .update({ dismissed_at: now }).eq('id', suggestionId).eq('user_id', userId)
DismissUpdate(ms, userId, suggestionId, t) ==
    [i \in DOMAIN ms |->
        IF i = suggestionId /\ ms[i].user_id = userId
        THEN [ms[i] EXCEPT !.dismissed_at = t]
        ELSE ms[i]]

\* generateMatchSuggestions(userId, limit) run in one piece: the tables it can
\* leave behind
generateMatchSuggestions(us, cs, ms, unique, userId, limit) ==
    IF userId \notin DOMAIN us \/ fault = "currentUser"
    THEN {ms}                       \* 'User not found', caught and logged
    ELSE IF fault = "potentialMatches"
    THEN {ms}                       \* 'Failed to fetch potential matches', caught and logged
    ELSE LET currentUser == us[userId]
             \* the two exclusion reads take `data` only: on an error it is
             \* null and the read contributes nothing
             existingSuggestions ==
                 IF fault = "existingSuggestions" THEN {} ELSE ExistingSuggestions(ms, userId)
             connections ==
                 IF fault = "connections" THEN {} ELSE Connections(cs, userId)
             excluded == existingIds(existingSuggestions, connections, userId)
             pool == Eligible(PotentialMatches(us, userId), excluded)
         IN  {InsertSuggestions(ms, suggestions(us, userId, currentUser, T), unique) :
                 T \in scoredMatches(us, currentUser, pool, limit)}

----------------------------------------------------------------------------
(* Tables the runs start from *)

Tags == <<"hiking", "coffee", "jazz", "chess", "film">>

\* two single users who call the API, a third single user, one who is 'looking'
SmallUsers ==
    (1 :> Profile("single", <<"hiking", "coffee", "jazz">>)) @@
    (2 :> Profile("single", <<"coffee", "jazz", "chess">>)) @@
    (3 :> Profile("single", <<"hiking">>)) @@
    (4 :> Profile("looking", <<>>))

\* candidates besides the owner in the large table
QueuePool == 11

\* owner 1 with every tag; candidate c shares c % 6 of them
QueueUsers ==
    [u \in 1..(QueuePool + 1) |->
        IF u = 1 THEN Profile("single", Tags)
        ELSE Profile("single", SubSeq(Tags, 1, u % 6))]

\* candidates besides the owner in the deep table
DepthPool == 15

\* owner 1 with every tag; the first ten candidates share one to five of the
\* tags, the others none
DepthUsers ==
    [u \in 1..(DepthPool + 1) |->
        IF u = 1 THEN Profile("single", Tags)
        ELSE IF u <= 11 THEN Profile("single", SubSeq(Tags, 1, ((u - 2) % 5) + 1))
        ELSE Profile("single", <<>>)]

Couple(a, b) == [user1_id |-> a, user2_id |-> b]

\* no couple, or one couple of a caller in either column
InitialCouples ==
    {<<>>, <<Couple(1, 3)>>, <<Couple(3, 1)>>, <<Couple(2, 1)>>}

NoProbe == [op |-> "none", score |-> 0, reason |-> <<>>]

\* interest lists as a profile update may store them: any array of strings,
\* long, short, out of order or with a tag repeated
LongTags == <<"hiking", "coffee", "jazz", "chess", "film", "yoga", "wine">>

InterestLists ==
    {SubSeq(LongTags, 1, k) : k \in 0..Len(LongTags)}
      \cup {<<"coffee">>, <<"jazz", "hiking">>, <<"opera">>,
            <<"hiking", "hiking">>, <<"hiking", "coffee", "hiking">>,
            <<"hiking", "hiking", "hiking", "hiking", "hiking", "hiking">>}

Statuses == {"single", "looking", "complicated"}

Profiles == {Profile(st, l) : st \in Statuses, l \in InterestLists}

\* scores handed to getMatchReason
ScoreInputs == {0, 50, 70, 71, 75, 95, 100}

NoResponse ==
    [op |-> "none", userId |-> 0, suggestionId |-> 0, status |-> "none", suggestions |-> <<>>]

Idle ==
    [pc |-> "idle", userId |-> 0, potentialMatches |-> {}, existingSuggestions |-> {},
     connections |-> {}, suggestions |-> <<>>]

Init ==
    /\ users = SmallUsers
    /\ sessions = {1, 2}
    /\ couples \in InitialCouples
    /\ matches_suggestions = <<>>
    /\ storeEnforcesUnique \in BOOLEAN
    /\ now = 1
    /\ budget = MaxDismissals
    /\ response = NoResponse
    /\ inflight = [r \in 1..NumRequests |-> Idle]
    /\ fault = "none"
    /\ probe = NoProbe
    /\ connection_requests = <<>>

\* the deep table, one caller, no row stored yet
InitDepth ==
    /\ users = DepthUsers
    /\ sessions = {1}
    /\ couples = <<>>
    /\ matches_suggestions = <<>>
    /\ storeEnforcesUnique = FALSE
    /\ now = 1
    /\ budget = MaxQueueDismissals
    /\ response = NoResponse
    /\ inflight = [r \in 1..NumRequests |-> Idle]
    /\ fault = "none"
    /\ probe = NoProbe
    /\ connection_requests = <<>>

InitQueue ==
    /\ users = QueueUsers
    /\ sessions = {1}
    /\ couples = <<>>
    /\ matches_suggestions = <<>>
    /\ storeEnforcesUnique = FALSE
    /\ now = 1
    /\ budget = MaxQueueDismissals
    /\ response = NoResponse
    /\ inflight = [r \in 1..NumRequests |-> Idle]
    /\ fault = "none"
    /\ probe = NoProbe
    /\ connection_requests = <<>>

\* store calls of GET /suggestions and POST /dismiss that may answer with an error
Faults ==
    {"none", "firstRead", "currentUser", "potentialMatches", "existingSuggestions",
     "connections", "insert", "reread", "update"}

\* one store call fails throughout the run
InitFault ==
    /\ users = SmallUsers
    /\ sessions = {1}
    /\ couples = <<>>
    /\ matches_suggestions = <<>>
    /\ storeEnforcesUnique \in BOOLEAN
    /\ now = 1
    /\ budget = MaxDismissals
    /\ response = NoResponse
    /\ inflight = [r \in 1..NumRequests |-> Idle]
    /\ fault \in Faults
    /\ probe = NoProbe
    /\ connection_requests = <<>>

\* a two-user table holding any pair of profiles; user 1 calls
InitPure ==
    /\ \E a \in Profiles : \E b \in Profiles : users = (1 :> a) @@ (2 :> b)
    /\ sessions = {1}
    /\ couples = <<>>
    /\ matches_suggestions = <<>>
    /\ storeEnforcesUnique = FALSE
    /\ now = 1
    /\ budget = 0
    /\ response = NoResponse
    /\ inflight = [r \in 1..NumRequests |-> Idle]
    /\ fault = "none"
    /\ probe = NoProbe
    /\ connection_requests = <<>>

\* the small table with both callers and no request sent yet
InitConn ==
    /\ users = SmallUsers
    /\ sessions = {1, 2}
    /\ couples = <<>>
    /\ matches_suggestions = <<>>
    /\ storeEnforcesUnique \in BOOLEAN
    /\ now = 1
    /\ budget = 0
    /\ response = NoResponse
    /\ inflight = [r \in 1..NumRequests |-> Idle]
    /\ fault = "none"
    /\ probe = NoProbe
    /\ connection_requests = <<>>

\* store calls of POST /respond that may fail
ConnFaults == {"none", "statusUpdate", "coupleInsert"}

\* the same table with one store call of POST /respond failing throughout
InitConnFault ==
    /\ users = SmallUsers
    /\ sessions = {1, 2}
    /\ couples = <<>>
    /\ matches_suggestions = <<>>
    /\ storeEnforcesUnique \in BOOLEAN
    /\ now = 1
    /\ budget = 0
    /\ response = NoResponse
    /\ inflight = [r \in 1..NumRequests |-> Idle]
    /\ fault \in ConnFaults
    /\ probe = NoProbe
    /\ connection_requests = <<>>

InitConc ==
    /\ users = SmallUsers
    /\ sessions = {1}
    /\ couples \in {<<>>, <<Couple(1, 3)>>}
    /\ matches_suggestions = <<>>
    /\ storeEnforcesUnique \in BOOLEAN
    /\ now = 1
    /\ budget = MaxConcDismissals
    /\ response = NoResponse
    /\ inflight = [r \in 1..NumRequests |-> Idle]
    /\ fault = "none"
    /\ probe = NoProbe
    /\ connection_requests = <<>>

----------------------------------------------------------------------------
(* Handlers run in one piece *)

\* time passes between requests
Tick ==
    /\ now < MaxClock
    /\ now' = now + 1
    /\ UNCHANGED <<users, sessions, couples, matches_suggestions, storeEnforcesUnique,
                   budget, response, inflight, fault, probe, connection_requests>>

\* the re-read takes `data` only: on an error the answer is newSuggestions || []
Reread(ms, userId) ==
    IF fault = "reread" THEN {<<>>} ELSE SelectLiveQueue(ms, userId)

\* GET /suggestions
getSuggestions(userId) ==
    /\ IF fault = "firstRead"
       THEN /\ matches_suggestions' = matches_suggestions
            /\ response' = [op |-> "suggestions", userId |-> userId, suggestionId |-> 0,
                            status |-> "StoreError", suggestions |-> <<>>]
       ELSE IF FirstReadLength(matches_suggestions, userId) < TargetDepth
       THEN \E ms \in generateMatchSuggestions(users, couples, matches_suggestions,
                                               storeEnforcesUnique, userId, FetchCeiling) :
              \E newSuggestions \in Reread(ms, userId) :
                  /\ matches_suggestions' = ms
                  /\ response' = [op |-> "suggestions", userId |-> userId, suggestionId |-> 0,
                                  status |-> "ok", suggestions |-> newSuggestions]
       ELSE \E first \in SelectLiveQueue(matches_suggestions, userId) :
              /\ matches_suggestions' = matches_suggestions
              /\ response' = [op |-> "suggestions", userId |-> userId, suggestionId |-> 0,
                              status |-> "ok", suggestions |-> first]
    /\ UNCHANGED <<users, sessions, couples, storeEnforcesUnique, now, budget, inflight,
                   fault, probe, connection_requests>>

\* the error of the update is dropped and the handler answers success
DismissOutcome_Swallowed(error) == "ok"

\* if (error) throw error, and the handler's catch (error) { next(error) }
DismissOutcome(error) == IF error THEN "StoreError" ELSE "ok"

\* dismissSuggestion(userId, suggestionId): the update reports no error when
\* it matches no row
dismissSuggestion(userId, suggestionId) ==
    matches_suggestions' =
        IF fault = "update"
        THEN matches_suggestions
        ELSE DismissUpdate(matches_suggestions, userId, suggestionId, now)

\* POST /dismiss; suggestionId 0 stands for a missing or malformed id
postDismiss(userId, suggestionId) ==
    /\ budget > 0
    /\ budget' = budget - 1
    /\ IF suggestionId = 0
       THEN /\ matches_suggestions' = matches_suggestions
            /\ response' = [op |-> "dismiss", userId |-> userId, suggestionId |-> suggestionId,
                            status |-> "ValidationError", suggestions |-> <<>>]
       ELSE /\ dismissSuggestion(userId, suggestionId)
            /\ response' = [op |-> "dismiss", userId |-> userId, suggestionId |-> suggestionId,
                            status |-> DismissOutcome(fault = "update"), suggestions |-> <<>>]
    /\ UNCHANGED <<users, sessions, couples, storeEnforcesUnique, now, inflight,
                   fault, probe, connection_requests>>

\* calculateCompatibility(user1, user2) called on the two stored profiles
scoreProbe ==
    /\ probe' = [op |-> "score",
                 score |-> calculateCompatibility(users[1], users[2]),
                 reason |-> <<>>]
    /\ UNCHANGED <<users, sessions, couples, matches_suggestions, storeEnforcesUnique,
                   now, budget, response, inflight, fault, connection_requests>>

\* getMatchReason(user1, user2, score) called on the two stored profiles
reasonProbe(score) ==
    /\ probe' = [op |-> "reason",
                 score |-> score,
                 reason |-> getMatchReason(users[1], users[2], score)]
    /\ UNCHANGED <<users, sessions, couples, matches_suggestions, storeEnforcesUnique,
                   now, budget, response, inflight, fault, connection_requests>>

\* ids a caller may send: stored ids, one that is not stored, a malformed one
SuggestionIds == 0..Min(Len(matches_suggestions) + 1, MaxSuggestionId)

----------------------------------------------------------------------------
(* Connection requests, handlers run in one piece *)

\* the check of one direction only
ExistingRequest_OneWay(crs, fromUserId, toUserId) ==
    {i \in DOMAIN crs :
        /\ crs[i].status = "pending"
        /\ crs[i].from_user_id = fromUserId /\ crs[i].to_user_id = toUserId}

\* .or(`and(from.eq.A,to.eq.B),and(from.eq.B,to.eq.A)`).eq('status', 'pending')
ExistingRequest(crs, fromUserId, toUserId) ==
    {i \in DOMAIN crs :
        /\ crs[i].status = "pending"
        /\ \/ (crs[i].from_user_id = fromUserId /\ crs[i].to_user_id = toUserId)
           \/ (crs[i].from_user_id = toUserId /\ crs[i].to_user_id = fromUserId)}

\* what POST /request answers; toUserId 0 stands for a missing or malformed id
RequestOutcome(us, crs, fromUserId, toUserId) ==
    IF toUserId = 0 THEN "ValidationError"
    ELSE IF fromUserId = toUserId THEN "ValidationError"
    ELSE IF toUserId \notin DOMAIN us THEN "NotFoundError"
    ELSE IF ExistingRequest(crs, fromUserId, toUserId) # {} THEN "ConflictError"
    ELSE "created"

\* POST /request
postRequest(fromUserId, toUserId) ==
    LET outcome == RequestOutcome(users, connection_requests, fromUserId, toUserId)
    IN  /\ outcome = "created" => Len(connection_requests) < MaxRequests
        /\ connection_requests' =
              IF outcome = "created"
              THEN Append(connection_requests,
                          [from_user_id |-> fromUserId, to_user_id |-> toUserId,
                           status |-> "pending"])
              ELSE connection_requests
        /\ response' = [op |-> "request", userId |-> fromUserId, toUserId |-> toUserId,
                        status |-> outcome]
        /\ UNCHANGED <<users, sessions, couples, matches_suggestions, storeEnforcesUnique,
                       now, budget, inflight, fault, probe>>

\* what POST /respond answers; requestId 0 stands for a missing or malformed
\* id, and validateRequired(accepted) rejects a false `accepted` as missing
RespondOutcome(crs, userId, requestId, accepted) ==
    IF requestId = 0 \/ ~accepted THEN "ValidationError"
    ELSE IF requestId \notin DOMAIN crs THEN "NotFoundError"
    ELSE IF crs[requestId].to_user_id # userId THEN "NotFoundError"
    ELSE IF accepted THEN "accepted" ELSE "rejected"

\* the update of the status: its result is not looked at
UpdateStatus(crs, requestId, status) ==
    IF fault = "statusUpdate" THEN crs
    ELSE [crs EXCEPT ![requestId].status = status]

\* the insert into couples; a store that enforces uniqueness rejects a pair
\* that is stored already
InsertCouple(cs, unique, couple) ==
    IF fault = "coupleInsert" THEN cs
    ELSE IF unique /\ \E i \in DOMAIN cs :
                         cs[i].user1_id = couple.user1_id /\ cs[i].user2_id = couple.user2_id
    THEN cs
    ELSE Append(cs, couple)

\* POST /respond: the status is written whatever it was, then the couple is
\* inserted; a failure of that insert is only logged
postRespond(userId, requestId, accepted) ==
    LET outcome == RespondOutcome(connection_requests, userId, requestId, accepted)
        answered == outcome \in {"accepted", "rejected"}
        after == IF outcome = "accepted"
                 THEN InsertCouple(couples, storeEnforcesUnique,
                                   Couple(connection_requests[requestId].from_user_id,
                                          connection_requests[requestId].to_user_id))
                 ELSE couples
    IN  /\ Len(after) <= MaxCouples
        /\ connection_requests' =
              IF answered
              THEN UpdateStatus(connection_requests, requestId, outcome)
              ELSE connection_requests
        /\ couples' = after
        /\ response' = [op |-> "respond", userId |-> userId, requestId |-> requestId,
                        status |-> outcome]
        /\ UNCHANGED <<users, sessions, matches_suggestions, storeEnforcesUnique,
                       now, budget, inflight, fault, probe>>

\* ids a caller may name as recipient: every user, one that does not exist, a malformed one
RecipientIds == 0..(Cardinality(DOMAIN users) + 1)

\* request ids a caller may send: stored ids, one that is not stored, a malformed one
RequestIds == 0..(Len(connection_requests) + 1)

NextConn ==
    \/ \E fromUserId \in sessions : \E toUserId \in RecipientIds :
          postRequest(fromUserId, toUserId)
    \/ \E userId \in sessions : \E requestId \in RequestIds : \E accepted \in BOOLEAN :
          postRespond(userId, requestId, accepted)

SpecConn == InitConn /\ [][NextConn]_vars

SpecConnFault == InitConnFault /\ [][NextConn]_vars

----------------------------------------------------------------------------
(* GET /suggestions one store round trip at a time *)

Slots == 1..NumRequests

At(r, pc) == inflight[r].pc = pc

Goto(r, pc) == [inflight[r] EXCEPT !.pc = pc]

StoreUnchanged == UNCHANGED <<users, sessions, couples, matches_suggestions,
                              storeEnforcesUnique, now, budget, response,
                              fault, probe, connection_requests>>

\* the first select and the test on its length
reqFirstRead(r, userId) ==
    /\ At(r, "idle")
    /\ IF FirstReadLength(matches_suggestions, userId) < TargetDepth
       THEN inflight' = [inflight EXCEPT ![r] = [Idle EXCEPT !.pc = "readUsers",
                                                           !.userId = userId]]
       ELSE \E first \in SelectLiveQueue(matches_suggestions, userId) :
              inflight' = [inflight EXCEPT ![r] = [Idle EXCEPT !.pc = "done",
                                                             !.userId = userId,
                                                             !.suggestions = first]]
    /\ StoreUnchanged

\* generateMatchSuggestions: the current user and the candidate pool
genReadUsers(r) ==
    /\ At(r, "readUsers")
    /\ IF inflight[r].userId \notin DOMAIN users
       THEN inflight' = [inflight EXCEPT ![r] = Goto(r, "reread")]
       ELSE inflight' = [inflight EXCEPT ![r] =
                [Goto(r, "readExisting") EXCEPT
                    !.potentialMatches = PotentialMatches(users, inflight[r].userId)]]
    /\ StoreUnchanged

\* generateMatchSuggestions: the live suggestions of the owner
genReadExisting(r) ==
    /\ At(r, "readExisting")
    /\ inflight' = [inflight EXCEPT ![r] =
            [Goto(r, "readConnections") EXCEPT
                !.existingSuggestions = ExistingSuggestions(matches_suggestions, inflight[r].userId)]]
    /\ StoreUnchanged

\* generateMatchSuggestions: the couples of the owner
genReadConnections(r) ==
    /\ At(r, "readConnections")
    /\ inflight' = [inflight EXCEPT ![r] =
            [Goto(r, "insert") EXCEPT !.connections = Connections(couples, inflight[r].userId)]]
    /\ StoreUnchanged

\* generateMatchSuggestions: filter, score, rank, cut and insert
genInsert(r) ==
    /\ At(r, "insert")
    /\ LET userId == inflight[r].userId
           excluded == existingIds(inflight[r].existingSuggestions,
                                   inflight[r].connections, userId)
           pool == Eligible(inflight[r].potentialMatches, excluded)
       IN  \E T \in scoredMatches(users, users[userId], pool, FetchCeiling) :
              matches_suggestions' =
                  InsertSuggestions(matches_suggestions,
                                    suggestions(users, userId, users[userId], T),
                                    storeEnforcesUnique)
    /\ inflight' = [inflight EXCEPT ![r] = Goto(r, "reread")]
    /\ UNCHANGED <<users, sessions, couples, storeEnforcesUnique, now, budget, response,
                   fault, probe, connection_requests>>

\* the second select and the answer
reqReread(r) ==
    /\ At(r, "reread")
    /\ \E newSuggestions \in SelectLiveQueue(matches_suggestions, inflight[r].userId) :
          inflight' = [inflight EXCEPT ![r] =
                [Idle EXCEPT !.pc = "done", !.userId = inflight[r].userId,
                             !.suggestions = newSuggestions]]
    /\ StoreUnchanged

\* the answer is sent; the slot serves the next request
reqFinish(r) ==
    /\ At(r, "done")
    /\ inflight' = [inflight EXCEPT ![r] = Idle]
    /\ StoreUnchanged

NextConc ==
    \/ \E r \in Slots : \E userId \in sessions : reqFirstRead(r, userId)
    \/ \E r \in Slots : genReadUsers(r)
    \/ \E r \in Slots : genReadExisting(r)
    \/ \E r \in Slots : genReadConnections(r)
    \/ \E r \in Slots : genInsert(r)
    \/ \E r \in Slots : reqReread(r)
    \/ \E r \in Slots : reqFinish(r)
    \/ \E userId \in sessions : \E suggestionId \in SuggestionIds :
          postDismiss(userId, suggestionId)

SpecConc == InitConc /\ [][NextConc]_vars

----------------------------------------------------------------------------
(* POST /request one store round trip at a time *)

\* validation of the body and the select of the recipient
RecipientOutcome(us, fromUserId, toUserId) ==
    IF toUserId = 0 THEN "ValidationError"
    ELSE IF fromUserId = toUserId THEN "ValidationError"
    ELSE IF toUserId \notin DOMAIN us THEN "NotFoundError"
    ELSE "ok"

RequestAnswer(fromUserId, toUserId, status) ==
    [op |-> "request", userId |-> fromUserId, toUserId |-> toUserId, status |-> status]

RequestUnchanged == UNCHANGED <<users, sessions, couples, matches_suggestions,
                                storeEnforcesUnique, now, budget, fault, probe>>

\* the body is validated and the recipient looked up
rcRecipient(r, fromUserId, toUserId) ==
    LET outcome == RecipientOutcome(users, fromUserId, toUserId)
    IN  /\ At(r, "idle")
        /\ IF outcome = "ok"
           THEN /\ inflight' = [inflight EXCEPT ![r] =
                       [pc |-> "checkExisting", userId |-> fromUserId, toUserId |-> toUserId]]
                /\ UNCHANGED response
           ELSE /\ response' = RequestAnswer(fromUserId, toUserId, outcome)
                /\ UNCHANGED inflight
        /\ UNCHANGED connection_requests
        /\ RequestUnchanged

\* the select of pending requests between the two users
rcCheckExisting(r) ==
    /\ At(r, "checkExisting")
    /\ IF ExistingRequest(connection_requests, inflight[r].userId, inflight[r].toUserId) # {}
       THEN /\ response' = RequestAnswer(inflight[r].userId, inflight[r].toUserId,
                                         "ConflictError")
            /\ inflight' = [inflight EXCEPT ![r] = Idle]
       ELSE /\ inflight' = [inflight EXCEPT ![r] = Goto(r, "insert")]
            /\ UNCHANGED response
    /\ UNCHANGED connection_requests
    /\ RequestUnchanged

\* the insert of the pending row and the 201 answer
rcInsert(r) ==
    /\ At(r, "insert")
    /\ Len(connection_requests) < MaxRequests
    /\ connection_requests' =
          Append(connection_requests,
                 [from_user_id |-> inflight[r].userId, to_user_id |-> inflight[r].toUserId,
                  status |-> "pending"])
    /\ response' = RequestAnswer(inflight[r].userId, inflight[r].toUserId, "created")
    /\ inflight' = [inflight EXCEPT ![r] = Idle]
    /\ RequestUnchanged

NextConnConc ==
    \/ \E r \in Slots : \E fromUserId \in sessions : \E toUserId \in RecipientIds :
          rcRecipient(r, fromUserId, toUserId)
    \/ \E r \in Slots : rcCheckExisting(r)
    \/ \E r \in Slots : rcInsert(r)

SpecConnConc == InitConn /\ [][NextConnConc]_vars

\* the requests, back to back, at one reading of the clock
NextQueue ==
    \/ \E userId \in sessions : getSuggestions(userId)
    \/ \E userId \in sessions : \E suggestionId \in SuggestionIds :
          postDismiss(userId, suggestionId)

Next ==
    \/ Tick
    \/ NextQueue

Spec == Init /\ [][Next]_vars

SpecFault == InitFault /\ [][NextQueue]_vars

\* the scorer and the reason builder called directly, and through replenishment
NextPure ==
    \/ scoreProbe
    \/ \E score \in ScoreInputs : reasonProbe(score)
    \/ \E userId \in sessions : getSuggestions(userId)

SpecPure == InitPure /\ [][NextPure]_vars

SpecQueue == InitQueue /\ [][NextQueue]_vars

SpecDepth == InitDepth /\ [][NextQueue]_vars

----------------------------------------------------------------------------
(* Properties *)

SamePair(a, b) ==
    a.user_id = b.user_id /\ a.suggested_match_id = b.suggested_match_id

\* rows stored by the step
NewIds == {k \in DOMAIN matches_suggestions' : k \notin DOMAIN matches_suggestions}

\* C1: after any sequence of GET /suggestions and POST /dismiss calls run one
\* after the other, no two live rows have the same (user_id, suggested_match_id)
C1_NoDuplicateLive ==
    \A i, j \in DOMAIN matches_suggestions :
        (/\ i # j
         /\ Live(matches_suggestions[i])
         /\ Live(matches_suggestions[j]))
        => ~SamePair(matches_suggestions[i], matches_suggestions[j])

\* an owner whose queue was topped up while two of its candidates stayed live
\* and an earlier row of the owner is dismissed
C1_Witness ==
    \E u \in sessions :
        /\ Cardinality(LiveIds(matches_suggestions, u)) >= 2
        /\ \E i \in DOMAIN matches_suggestions :
              /\ matches_suggestions[i].user_id = u
              /\ ~Live(matches_suggestions[i])
              /\ \E j \in LiveIds(matches_suggestions, u) : j > i

Settled == \A r \in Slots : At(r, "done")

\* C2: once two interleaved GET /suggestions calls of one owner have both
\* finished, there is at most one live row per (user_id, suggested_match_id)
C2_SettledNoDuplicateLive ==
    (Settled /\ inflight[1].userId = inflight[2].userId)
    => \A i, j \in DOMAIN matches_suggestions :
          (i < j /\ Live(matches_suggestions[i]) /\ Live(matches_suggestions[j]))
          => ~SamePair(matches_suggestions[i], matches_suggestions[j])

\* C3: once the owner has dismissed a suggestion for a candidate, no later
\* replenishment stores a new row for that owner and candidate
C3_DismissedNeverResurfaces ==
    [][\A k \in NewIds :
          ~\E j \in DOMAIN matches_suggestions :
              /\ ~Live(matches_suggestions[j])
              /\ SamePair(matches_suggestions[j], matches_suggestions'[k])]_vars

\* C4: a dismiss call naming a row of another owner, or no row at all, is
\* never answered with success
C4_ForeignDismissFails ==
    (/\ response.op = "dismiss"
     /\ response.suggestionId # 0
     /\ \/ response.suggestionId \notin DOMAIN matches_suggestions
        \/ matches_suggestions[response.suggestionId].user_id # response.userId)
    => response.status # "ok"

\* C5: dismissSuggestion(userId, suggestionId) leaves every row of another
\* owner as it was, whatever userId and suggestionId are
C5_DismissFrame ==
    [][\A userId \in sessions : \A suggestionId \in SuggestionIds :
          postDismiss(userId, suggestionId)
          => /\ DOMAIN matches_suggestions' = DOMAIN matches_suggestions
             /\ \A i \in DOMAIN matches_suggestions :
                   matches_suggestions[i].user_id # userId
                   => matches_suggestions'[i] = matches_suggestions[i]]_vars

\* a caller has just named a live row of another owner in a dismiss call
C5_Witness ==
    /\ response.op = "dismiss"
    /\ response.suggestionId \in DOMAIN matches_suggestions
    /\ matches_suggestions[response.suggestionId].user_id # response.userId
    /\ Live(matches_suggestions[response.suggestionId])

\* C6: dismissing a row of the caller that is already dismissed leaves the
\* stored row, dismissed_at included, as the first dismissal left it
C6_RepeatedDismissNoChange ==
    [][\A userId \in sessions : \A suggestionId \in SuggestionIds :
          (/\ postDismiss(userId, suggestionId)
           /\ suggestionId \in DOMAIN matches_suggestions
           /\ matches_suggestions[suggestionId].user_id = userId
           /\ ~Live(matches_suggestions[suggestionId]))
          => matches_suggestions'[suggestionId] = matches_suggestions[suggestionId]]_vars

\* C7: once dismissed_at of a row is set, no later call clears it
C7_DismissedStaysDismissed ==
    [][\A i \in DOMAIN matches_suggestions :
          ~Live(matches_suggestions[i])
          => i \in DOMAIN matches_suggestions' /\ ~Live(matches_suggestions'[i])]_vars

\* a dismissed row next to a newer live row of the same owner and candidate:
\* a replenishment ran over the dismissed row
C7_Witness ==
    \E i, j \in DOMAIN matches_suggestions :
        /\ i < j
        /\ ~Live(matches_suggestions[i])
        /\ Live(matches_suggestions[j])
        /\ SamePair(matches_suggestions[i], matches_suggestions[j])

\* C8: every stored row has user_id different from suggested_match_id
C8_NeverSelf ==
    \A i \in DOMAIN matches_suggestions :
        matches_suggestions[i].user_id # matches_suggestions[i].suggested_match_id

\* rows were stored for an owner who is 'single' and so has the status the
\* pool is selected by
C8_Witness ==
    \E i \in DOMAIN matches_suggestions :
        users[matches_suggestions[i].user_id].relationship_status = "single"

\* C9: every row stored by generateMatchSuggestions(userId) targets a user who,
\* in the tables the call read, is not userId, is not coupled with userId in
\* either column and is not the target of a live suggestion of userId
C9_FilterExcludes ==
    [][\A k \in NewIds :
          LET userId == matches_suggestions'[k].user_id
              target == matches_suggestions'[k].suggested_match_id
          IN  /\ target # userId
              /\ \A c \in Range(couples) :
                    /\ ~(c.user1_id = userId /\ c.user2_id = target)
                    /\ ~(c.user2_id = userId /\ c.user1_id = target)
              /\ \A i \in DOMAIN matches_suggestions :
                    (matches_suggestions[i].user_id = userId /\ Live(matches_suggestions[i]))
                    => matches_suggestions[i].suggested_match_id # target]_vars

\* rows were stored for an owner who appears in the second column of a couple
C9_Witness ==
    /\ \E c \in Range(couples) : c.user2_id = 1
    /\ \E i \in DOMAIN matches_suggestions : matches_suggestions[i].user_id = 1

Descending(ms, q) ==
    \A a, b \in DOMAIN q :
        a < b => ms[q[a]].compatibility_score >= ms[q[b]].compatibility_score

\* C10 as stated: with at least 5 live rows GET /suggestions stores nothing,
\* changes nothing and returns the whole live queue, score descending
C10_ReturnsWholeQueue ==
    [][\A userId \in sessions :
          (Cardinality(LiveIds(matches_suggestions, userId)) >= 5 /\ getSuggestions(userId))
          => /\ matches_suggestions' = matches_suggestions
             /\ Range(response'.suggestions) = LiveIds(matches_suggestions, userId)
             /\ Descending(matches_suggestions, response'.suggestions)]_vars

\* C10 amended: with at least 5 live rows GET /suggestions stores nothing,
\* changes nothing and returns the live queue score descending, cut to its 10
\* highest-scoring rows; with 6 live rows it returns exactly those 6
C10_ReturnsTopOfQueue ==
    [][\A userId \in sessions :
          (Cardinality(LiveIds(matches_suggestions, userId)) >= 5 /\ getSuggestions(userId))
          => LET live == LiveIds(matches_suggestions, userId)
                 q == response'.suggestions
             IN  /\ matches_suggestions' = matches_suggestions
                 /\ Len(q) = Min(Cardinality(live), 10)
                 /\ Range(q) \subseteq live
                 /\ \A a, b \in DOMAIN q : a # b => q[a] # q[b]
                 /\ Descending(matches_suggestions, q)
                 /\ \A i \in live \ Range(q) : \A a \in DOMAIN q :
                       matches_suggestions[i].compatibility_score
                           <= matches_suggestions[q[a]].compatibility_score
                 /\ Cardinality(live) = 6 => Range(q) = live]_vars

\* the owner holds 6 live rows and was just answered with 6 suggestions
C10_Witness ==
    /\ response.op = "suggestions"
    /\ Cardinality(LiveIds(matches_suggestions, response.userId)) = 6
    /\ Len(response.suggestions) = 6

\* store calls made inside generateMatchSuggestions
GenerateFaults ==
    {"currentUser", "potentialMatches", "existingSuggestions", "connections", "insert"}

\* C15: when a step of generateMatchSuggestions fails during replenishment,
\* GET /suggestions still answers without an error, with the owner's existing
\* live queue
C15_FailedReplenishmentReturnsExisting ==
    [][\A userId \in sessions :
          (/\ fault \in GenerateFaults
           /\ FirstReadLength(matches_suggestions, userId) < 5
           /\ getSuggestions(userId))
          => /\ response'.status = "ok"
             /\ response'.suggestions \in SelectLiveQueue(matches_suggestions, userId)]_vars

\* C16: when the store reports an error for the dismissal update, the error
\* is raised and handed to the error handler; the call is not answered with
\* success
C16_DismissErrorSurfaced ==
    [][\A userId \in sessions : \A suggestionId \in SuggestionIds \ {0} :
          (fault = "update" /\ postDismiss(userId, suggestionId))
          => /\ response'.status = "StoreError"
             /\ matches_suggestions' = matches_suggestions]_vars

\* the owner's dismissal of one of their live rows has just met a store error
C16_Witness ==
    /\ fault = "update"
    /\ response.op = "dismiss"
    /\ response.suggestionId \in DOMAIN matches_suggestions
    /\ matches_suggestions[response.suggestionId].user_id = response.userId
    /\ Live(matches_suggestions[response.suggestionId])

SharedTags(a, b) == Range(a.interests) \cap Range(b.interests)

\* C12: calculateCompatibility(a, b) = calculateCompatibility(b, a) for every
\* pair of profiles, repeated tags included
C12_Symmetric ==
    probe.op = "score"
    => probe.score = calculateCompatibility(users[2], users[1])

BothAre(a, b, st) == a.relationship_status = st /\ b.relationship_status = st

\* C13: calculateCompatibility(a, b) = clamp(50 + statusBonus + min(5 * shared, 25), 0, 100)
\* with statusBonus 20 for two 'single', 15 for two 'looking', 0 otherwise, and
\* shared the number of distinct tags found in both interest lists
C13_Formula ==
    probe.op = "score"
    => LET a == users[1]
           b == users[2]
           statusBonus == IF BothAre(a, b, "single") THEN 20
                          ELSE IF BothAre(a, b, "looking") THEN 15 ELSE 0
           raw == 50 + statusBonus + Min(5 * Cardinality(SharedTags(a, b)), 25)
       IN  probe.score = Min(Max(raw, 0), 100)

\* C14: calculateCompatibility returns an integer from 0 to 100, and every
\* compatibility_score stored in matches_suggestions is in that range
C14_ScoreInRange ==
    /\ probe.op = "score" => probe.score \in 0..100
    /\ \A i \in DOMAIN matches_suggestions :
          matches_suggestions[i].compatibility_score \in 0..100

\* two 'single' profiles sharing six or more entries were scored, directly and
\* by a replenishment that stored the score
C14_Witness ==
    /\ probe.op = "score"
    /\ Len(sharedInterests(users[1], users[2])) >= 6
    /\ BothAre(users[1], users[2], "single")
    /\ \E i \in DOMAIN matches_suggestions :
          matches_suggestions[i].compatibility_score = probe.score

HasClause(reason, text) == \E i \in DOMAIN reason : reason[i].clause = text

\* C18: the reason holds the 'great compatibility' clause exactly when
\* score > 70, the shared-interest clause, with the number of shared interests,
\* exactly when an interest is shared, the both-single clause exactly when both
\* are 'single', and is the fallback literal exactly when no clause applies
C18_ReasonClauses ==
    probe.op = "reason"
    => LET a == users[1]
           b == users[2]
           shared == Cardinality(SharedTags(a, b))
           r == probe.reason
       IN  /\ HasClause(r, "Great compatibility") <=> probe.score > 70
           /\ HasClause(r, "Share interests") <=> shared > 0
           /\ \A i \in DOMAIN r : r[i].clause = "Share interests" => r[i].n = shared
           /\ HasClause(r, "Both looking for connection") <=> BothAre(a, b, "single")
           /\ (r = <<Clause("Potential connection", 0)>>)
                <=> (probe.score <= 70 /\ shared = 0 /\ ~BothAre(a, b, "single"))

\* targets of the rows a table holds beyond the first n
TargetsAfter(ms, n) == {ms[k].suggested_match_id : k \in {j \in DOMAIN ms : j > n}}

\* C11: with fewer than 5 live rows GET /suggestions stores the (at most 10)
\* highest-scoring eligible candidates as new rows and returns the merged live
\* queue, score descending, cut to 10 entries
C11_ReplenishAndMerge ==
    [][\A userId \in sessions :
          (Cardinality(LiveIds(matches_suggestions, userId)) < 5 /\ getSuggestions(userId))
          => LET live == LiveIds(matches_suggestions, userId)
                 partners == {c.user2_id : c \in {d \in Range(couples) : d.user1_id = userId}}
                               \cup {c.user1_id : c \in {d \in Range(couples) : d.user2_id = userId}}
                 taken == {matches_suggestions[i].suggested_match_id : i \in live}
                 eligible == {m \in DOMAIN users :
                                 /\ users[m].relationship_status = "single"
                                 /\ m \notin (taken \cup partners \cup {userId})}
                 score(m) == calculateCompatibility(users[userId], users[m])
                 targets == TargetsAfter(matches_suggestions', Len(matches_suggestions))
                 merged == live \cup NewIds
                 q == response'.suggestions
             IN  /\ \A i \in DOMAIN matches_suggestions :
                       matches_suggestions'[i] = matches_suggestions[i]
                 /\ Cardinality(NewIds) = Min(10, Cardinality(eligible))
                 /\ Cardinality(targets) = Cardinality(NewIds)
                 /\ targets \subseteq eligible
                 /\ \A x \in targets : \A y \in eligible \ targets : score(x) >= score(y)
                 /\ \A k \in NewIds :
                       /\ matches_suggestions'[k].user_id = userId
                       /\ Live(matches_suggestions'[k])
                       /\ matches_suggestions'[k].compatibility_score
                            = score(matches_suggestions'[k].suggested_match_id)
                 /\ Len(q) = Min(10, Cardinality(merged))
                 /\ Range(q) \subseteq merged
                 /\ \A a, b \in DOMAIN q : a # b => q[a] # q[b]
                 /\ Descending(matches_suggestions', q)
                 /\ \A i \in merged \ Range(q) : \A a \in DOMAIN q :
                       matches_suggestions'[i].compatibility_score
                           <= matches_suggestions'[q[a]].compatibility_score]_vars

\* a queue of 4 was topped up past the ceiling: 11 rows are live, 10 were returned
C11_Witness ==
    /\ response.op = "suggestions"
    /\ Cardinality(LiveIds(matches_suggestions, response.userId)) = 11
    /\ Len(response.suggestions) = 10
    /\ \E i \in DOMAIN matches_suggestions : ~Live(matches_suggestions[i])

\* C19: two runs of generateMatchSuggestions over the same stored users,
\* couples and suggestions persist the same set of candidates, whatever order
\* the store returns the pool in
C19_DeterministicSelection ==
    [][\A userId \in sessions :
          (FirstReadLength(matches_suggestions, userId) < 5 /\ getSuggestions(userId))
          => \A other \in generateMatchSuggestions(users, couples, matches_suggestions,
                                                   storeEnforcesUnique, userId, FetchCeiling) :
                TargetsAfter(other, Len(matches_suggestions))
                    = TargetsAfter(matches_suggestions', Len(matches_suggestions))]_vars

\* C17: when the store enforces uniqueness of live pairs and a candidate of a
\* replenishment batch conflicts, only that candidate is skipped: the call
\* goes on and the candidates of the batch that do not conflict are stored
C17_ConflictSkippedAlone ==
    [][\A r \in Slots :
          (storeEnforcesUnique /\ genInsert(r))
          => LET userId == inflight[r].userId
                 excluded == inflight[r].existingSuggestions
                               \cup {c.user2_id : c \in {d \in inflight[r].connections :
                                                           d.user1_id = userId}}
                               \cup {c.user1_id : c \in {d \in inflight[r].connections :
                                                           d.user2_id = userId}}
                 batch == inflight[r].potentialMatches \ excluded
                 liveNow == {matches_suggestions[i].suggested_match_id :
                                i \in LiveIds(matches_suggestions, userId)}
             IN  /\ inflight'[r].pc = "reread"
                 /\ Cardinality(batch) <= 10
                    => \A m \in batch \ liveNow :
                          m \in TargetsAfter(matches_suggestions', Len(matches_suggestions))]_vars

\* C20: POST /request from A to B while a pending request exists between A
\* and B in either direction fails with ConflictError and stores no row
C20_PendingConflict ==
    [][\A fromUserId \in sessions : \A toUserId \in DOMAIN users :
          (/\ fromUserId # toUserId
           /\ \E i \in DOMAIN connection_requests :
                 /\ connection_requests[i].status = "pending"
                 /\ {connection_requests[i].from_user_id, connection_requests[i].to_user_id}
                      = {fromUserId, toUserId}
           /\ postRequest(fromUserId, toUserId))
          => /\ response'.status = "ConflictError"
             /\ connection_requests' = connection_requests]_vars

\* a request was refused because the recipient's own request to the sender is pending
C20_Witness ==
    /\ response.op = "request"
    /\ response.status = "ConflictError"
    /\ \E i \in DOMAIN connection_requests :
          /\ connection_requests[i].status = "pending"
          /\ connection_requests[i].from_user_id = response.toUserId
          /\ connection_requests[i].to_user_id = response.userId

\* C21: under any interleaving of POST /request calls no two pending rows
\* link the same unordered pair of users
C21_OnePendingPerPair ==
    \A i, j \in DOMAIN connection_requests :
        (/\ i # j
         /\ connection_requests[i].status = "pending"
         /\ connection_requests[j].status = "pending")
        => {connection_requests[i].from_user_id, connection_requests[i].to_user_id}
             # {connection_requests[j].from_user_id, connection_requests[j].to_user_id}

\* C22: POST /respond on a request that is no longer pending changes neither
\* its status nor the couples
C22_RespondOnlyFromPending ==
    [][\A userId \in sessions : \A requestId \in DOMAIN connection_requests :
          \A accepted \in BOOLEAN :
             (/\ connection_requests[requestId].status # "pending"
              /\ postRespond(userId, requestId, accepted))
             => /\ connection_requests'[requestId].status
                     = connection_requests[requestId].status
                /\ couples' = couples]_vars

\* the two users of a request are linked by a couple row
HasCouple(cs, request) ==
    \E k \in DOMAIN cs :
        cs[k].user1_id = request.from_user_id /\ cs[k].user2_id = request.to_user_id

\* C23: when POST /respond answers 'accepted' the request is stored as
\* accepted and its couple exists, and no stored request is accepted without
\* its couple
C23_AcceptedHasCouple ==
    /\ (response.op = "respond" /\ response.status = "accepted")
       => /\ connection_requests[response.requestId].status = "accepted"
          /\ HasCouple(couples, connection_requests[response.requestId])
    /\ \A i \in DOMAIN connection_requests :
          connection_requests[i].status = "accepted"
          => HasCouple(couples, connection_requests[i])

\* the multiples of 5 from 50 to 95
ScoreValues == {50 + 5 * k : k \in 0..9}

\* C25: calculateCompatibility returns a multiple of 5 between 50 and 95, the
\* sum of base and bonuses as it stood before the clamp; stored scores are
\* such values
C25_ScoreMultipleOfFive ==
    /\ probe.op = "score"
       => LET shared == Len(sharedInterests(users[1], users[2]))
              statusBonus == IF BothAre(users[1], users[2], "single") THEN 20
                             ELSE IF BothAre(users[1], users[2], "looking") THEN 15
                             ELSE 0
              sum == 50 + statusBonus + (IF shared > 0 THEN Min(shared * 5, 25) ELSE 0)
          IN  probe.score \in ScoreValues /\ probe.score = sum
    /\ \A i \in DOMAIN matches_suggestions :
          matches_suggestions[i].compatibility_score \in ScoreValues

\* two 'single' profiles with more than five shared entries were scored 95
C25_Witness ==
    /\ probe.op = "score"
    /\ probe.score = 95
    /\ Len(sharedInterests(users[1], users[2])) > 5

\* C24: under getSuggestions and dismissSuggestion calls that do not overlap
\* no owner ever holds more than 14 live suggestions
C24_LiveAtMostFourteen ==
    \A userId \in DOMAIN users :
        Cardinality(LiveIds(matches_suggestions, userId)) <= 14

\* the owner was answered after a replenishment that took the queue from 4 to
\* 14 live rows
C24_Witness ==
    /\ response.op = "suggestions"
    /\ Cardinality(LiveIds(matches_suggestions, response.userId)) = 14
    /\ Len(matches_suggestions) = 20

====
